---- MODULE Spec2Model ----
(***************************************************************************)
(* A model of lazyass, a thin CouchDB client (src/lazyass/__init__.py).    *)
(*                                                                         *)
(* The client is a Server object and the Database handles it gives out.    *)
(* Every method builds a URL, sends a request on the shared session, and   *)
(* returns the decoded answer or raises.  The CouchDB host is the          *)
(* environment: it keeps the set of databases and the revision of each     *)
(* document, answers by its rules, and may also answer with a failure      *)
(* status of its own (401, 500).  Another writer may update a document at  *)
(* any moment.                                                             *)
(*                                                                         *)
(* Text is a sequence of tokens: "/" is the path separator, "\n" the line  *)
(* separator, every other token stands for characters that contain         *)
(* neither.                                                                *)
(***************************************************************************)
EXTENDS Integers, Sequences, FiniteSets, TLC

\* Longest body of a continuous changes feed, in bytes.
MaxStream == 4
\* Highest revision generation a document reaches.
MaxRev == 3

\* ------------------------------------------------------------------------
\* Text helpers

\* Index of the first "/" of s, 0 when there is none.
RECURSIVE FirstSlash(_, _)
FirstSlash(s, i) ==
  IF i > Len(s) THEN 0
  ELSE IF s[i] = "/" THEN i
  ELSE FirstSlash(s, i + 1)

\* Index of the last "/" of s, 0 when there is none.
RECURSIVE LastSlash(_, _)
LastSlash(s, i) ==
  IF i < 1 THEN 0
  ELSE IF s[i] = "/" THEN i
  ELSE LastSlash(s, i - 1)

\* urllib.quote_plus on one token: a space becomes "+", a "/" is escaped,
\* letters, digits and "_" are left alone.
QuoteToken(c) ==
  IF c = " " THEN "+"
  ELSE IF c = "/" THEN "%2F"
  ELSE c

\* urllib.quote_plus
quote_plus(s) == [i \in 1..Len(s) |-> QuoteToken(s[i])]

\* urlparse.urljoin for a relative reference without "..", query or
\* fragment: the reference replaces what follows the last "/" of the base.
urljoin(base, rel) ==
  IF rel = <<>> THEN base
  ELSE IF rel[1] = "/" THEN rel
  ELSE SubSeq(base, 1, LastSlash(base, Len(base))) \o rel

\* str.split('/', 1): at most one split, at the first "/".
SplitFirstSlash(s) ==
  LET i == FirstSlash(s, 1) IN
  IF i = 0 THEN <<s>>
  ELSE <<SubSeq(s, 1, i - 1), SubSeq(s, i + 1, Len(s))>>

\* map(f, xs) of Python 2: a list.
PyList(items) == [type |-> "list", items |-> items]

\* fmt % arg, for a format of nslots %s: a tuple gives one argument per
\* element, any other object (a list too) is the single argument.  The
\* result lists the arguments in slot order; a wrong count is a TypeError.
PyFormat(nslots, arg) ==
  LET args == IF arg.type = "tuple" THEN arg.items ELSE <<arg>> IN
  IF Len(args) = nslots THEN [ok |-> TRUE, args |-> args]
  ELSE [ok |-> FALSE, args |-> <<>>]

\* ------------------------------------------------------------------------
\* JSON

Digits == {"1", "2"}

DigitValue(c) == IF c = "1" THEN 1 ELSE 2

\* The number a digit string denotes.
RECURSIVE DigitsValue(_)
DigitsValue(s) ==
  IF s = <<>> THEN 0
  ELSE 10 * DigitsValue(SubSeq(s, 1, Len(s) - 1)) + DigitValue(s[Len(s)])

\* json.loads on the texts that occur: a quoted string gives its content,
\* a digit string its number, anything else (empty text too) a ValueError.
json_loads(s) ==
  IF Len(s) = 3 /\ s[1] = "\"" /\ s[3] = "\""
  THEN [ok |-> TRUE, value |-> s[2]]
  ELSE IF s # <<>> /\ \A i \in 1..Len(s) : s[i] \in Digits
  THEN [ok |-> TRUE, value |-> DigitsValue(s)]
  ELSE [ok |-> FALSE, value |-> 0]

\* json.dumps: the text of a value, kept apart from the value itself.
json_dumps(v) == [json |-> v]

\* ------------------------------------------------------------------------
\* Values

\* Database names a caller asks for.
DbNames == {"db1", "db2"}

\* Document ids: a plain one, and one with a "/" and a space in it.
Ids == {<<"a">>, <<"b", "/", " ">>}

\* The revision token of generation n, as CouchDB writes it.
RevToken(n) == <<"rev", n>>

\* The ETag header of a document at generation n: the token as a JSON string.
Etag(n) == <<"\"", RevToken(n), "\"">>

\* A dict with no key.
EmptyDict == [k \in {} |-> 0]

\* dict.update
DictUpdate(d, e) ==
  [k \in DOMAIN d \cup DOMAIN e |-> IF k \in DOMAIN e THEN e[k] ELSE d[k]]

\* The documents a caller hands in: any of _id, _rev and a field of its own.
DocOf(i, r, k) ==
  [key \in (IF i = <<>> THEN {} ELSE {"_id"})
           \cup (IF r = 0 THEN {} ELSE {"_rev"})
           \cup (IF k = "" THEN {} ELSE {"k"}) |->
     IF key = "_id" THEN i ELSE IF key = "_rev" THEN RevToken(r) ELSE k]

Docs == {DocOf(i, r, k) : i \in Ids \cup {<<>>}, r \in {0, 1}, k \in {"", "v"}}

\* Statuses the host answers with whatever the request (no rights, a fault).
Failures == {401, 500}

\* Response texts of a failed request.
Texts == {"reason one", "reason two"}

\* The URL the Server is made with: the root of the host.
ServerUrl == <<"/">>

\* ------------------------------------------------------------------------
\* State

VARIABLES
  server,   \* the Server object: made, _url
  db,       \* the Database handle last given out: made, _name, _url
  call,     \* the method of the current or last invocation
  arg,      \* its arguments
  reqs,     \* the requests it sent on the session, in order
  resps,    \* the responses to them
  result,   \* how it ended: kind (none, return, raise), exc, status, body
  value,    \* what it returned
  doc,      \* the caller's document object
  doc0,     \* that object as it was when the invocation began
  pc,       \* idle, or where a two-step invocation or a generator stands
  rev,      \* delete-by-id: the revision getrev returned
  stale,    \* delete-by-id: another writer wrote since getrev
  stream,   \* continuous feed: the bytes of the body not yet read
  body,     \* continuous feed: the whole body
  buf,      \* continuous feed: the bytes of the line being read
  events,   \* continuous feed: the events yielded so far
  dbs,      \* host: the databases that exist
  docs      \* host: per document id, its generation and whether it exists

vars == <<server, db, call, arg, reqs, resps, result, value, doc, doc0, pc,
          rev, stale, stream, body, buf, events, dbs, docs>>

feedVars == <<stream, body, buf, events>>
hostVars == <<dbs, docs>>
delVars == <<rev, stale>>

\* ------------------------------------------------------------------------
\* The session and the outcomes of a method

Request(method, url, params, data) ==
  [method |-> method, url |-> url, params |-> params, data |-> data]

\* A response: status_code, text, and what the method reads of the rest
\* (the decoded body, or the Etag header).
Response(status, text, content) ==
  [status |-> status, text |-> text, content |-> content]

NoResult == [kind |-> "none", exc |-> "", status |-> 0, body |-> ""]

Returned == [kind |-> "return", exc |-> "", status |-> 0, body |-> ""]

\* raise CouchDBError(status_code, body)
CouchDBError(status_code, text) ==
  [kind |-> "raise", exc |-> "CouchDBError", status |-> status_code, body |-> text]

\* An exception of another class (TypeError, ValueError).
Raised(exc) == [kind |-> "raise", exc |-> exc, status |-> 0, body |-> ""]

\* The text of a response: free for a failure, the JSON body otherwise.
TextsOf(status) == IF status \in {200, 201, 412} THEN {"json"} ELSE Texts

\* ------------------------------------------------------------------------
\* The host (CouchDB), as the client sees it

\* HEAD, PUT or DELETE of a database.
DbStatus(method, name) ==
  IF method = "PUT" THEN (IF name \in dbs THEN 412 ELSE 201)
  ELSE IF name \in dbs THEN 200 ELSE 404

\* GET or HEAD of a document.
DocStatus(id) == IF docs[id].exists THEN 200 ELSE 404

\* A write of document id by a writer that holds the revisions in held
\* (a set): 409 unless the document is new or its revision is held.
WriteStatuses(id, held) ==
  IF docs[id].exists /\ RevToken(docs[id].gen) \notin held THEN {409}
  ELSE IF docs[id].gen + 1 < MaxRev THEN {200, 201}
  ELSE {}

\* DELETE of a document with ?rev=r.
DeleteStatus(id, r) ==
  IF ~docs[id].exists THEN 404
  ELSE IF r # RevToken(docs[id].gen) THEN 409
  ELSE 200

Written(id) == [docs EXCEPT ![id] = [gen |-> @.gen + 1, exists |-> TRUE]]

Deleted(id) == [docs EXCEPT ![id] = [gen |-> @.gen + 1, exists |-> FALSE]]

\* The revisions a document object holds.
HeldRevs(d) == IF "_rev" \in DOMAIN d THEN {d["_rev"]} ELSE {}

\* Another client updates an existing document.
OtherWriter ==
  /\ \E id \in Ids :
       /\ docs[id].exists
       /\ docs[id].gen + 1 < MaxRev
       /\ docs' = Written(id)
       /\ stale' = (stale \/ (pc = "delitem" /\ arg.id = id))
  /\ UNCHANGED <<server, db, call, arg, reqs, resps, result, value, doc, doc0,
                 pc, rev, dbs>>
  /\ UNCHANGED feedVars

\* ------------------------------------------------------------------------
\* Server

Init ==
  /\ server = [made |-> FALSE, url |-> ServerUrl]
  /\ db = [made |-> FALSE, server |-> <<>>, name |-> "", url |-> <<>>]
  /\ call = ""
  /\ arg = EmptyDict
  /\ reqs = <<>>
  /\ resps = <<>>
  /\ result = NoResult
  /\ value = 0
  /\ doc = EmptyDict
  /\ doc0 = EmptyDict
  /\ pc = "idle"
  /\ rev = RevToken(0)
  /\ stale = FALSE
  /\ stream = <<>>
  /\ body = <<>>
  /\ buf = <<>>
  /\ events = <<>>
  /\ dbs = {}
  /\ docs = [id \in Ids |-> [gen |-> 0, exists |-> FALSE]]

\* A method that ended: what it leaves of itself.  Its locals are gone.
Finish(c, a, rqs, rss, res, val) ==
  /\ call' = c
  /\ arg' = a
  /\ reqs' = rqs
  /\ resps' = rss
  /\ result' = res
  /\ value' = val
  /\ pc' = "idle"
  /\ rev' = RevToken(0)
  /\ stale' = FALSE
  /\ stream' = <<>>
  /\ body' = <<>>
  /\ buf' = <<>>
  /\ events' = <<>>

\* A method that sent one request and ended.
Ends(c, a, rq, rs, res, val) == Finish(c, a, <<rq>>, <<rs>>, res, val)

\* A method that takes no document.
NoDoc == doc' = EmptyDict /\ doc0' = EmptyDict

\* Database.__init__
Database(srv, name) ==
  [made |-> TRUE, server |-> srv.url, name |-> name,
   url |-> urljoin(srv.url, <<name, "/">>)]

\* Server.__init__
Construct ==
  /\ pc = "idle"
  /\ ~server.made
  /\ \E status \in {200} \cup Failures : \E text \in TextsOf(status) :
       /\ server' = [server EXCEPT !.made = (status = 200)]
       /\ Ends("Server", EmptyDict, Request("GET", ServerUrl, EmptyDict, 0),
               Response(status, text, 0),
               IF status # 200 THEN CouchDBError(status, text) ELSE Returned,
               0)
  /\ NoDoc
  /\ UNCHANGED db
  /\ UNCHANGED hostVars

\* Server.__iter__
ListDatabaseNames ==
  /\ pc = "idle"
  /\ server.made
  /\ \E status \in {200} \cup Failures : \E text \in TextsOf(status) :
       Ends("Server.__iter__", EmptyDict,
            Request("GET", urljoin(server.url, <<"_all_dbs">>), EmptyDict, 0),
            Response(status, text, 0),
            IF status = 200 THEN Returned ELSE CouchDBError(status, text),
            IF status = 200 THEN dbs ELSE {})
  /\ NoDoc
  /\ UNCHANGED <<server, db>>
  /\ UNCHANGED hostVars

\* A lookup that reports the status the host gave.
LookupErrorPassesStatus(status, text) == CouchDBError(status, text)

\* Server.__getitem__, line 63: the error of a lookup that was not answered 200.
LookupError(status, text) == CouchDBError(404, "no such database")

\* Server.__getitem__
LookupDatabase ==
  /\ pc = "idle"
  /\ server.made
  /\ \E name \in DbNames :
     \E status \in {DbStatus("HEAD", name)} \cup Failures :
     \E text \in TextsOf(status) :
       /\ db' = IF status = 200 THEN Database(server, name) ELSE db
       /\ Ends("Server.__getitem__", [name |-> name],
               Request("HEAD", urljoin(server.url, <<name>>), EmptyDict, 0),
               Response(status, text, 0),
               IF status = 200 THEN Returned ELSE LookupError(status, text),
               IF status = 200 THEN Database(server, name) ELSE 0)
  /\ NoDoc
  /\ UNCHANGED server
  /\ UNCHANGED hostVars

\* Server.__delitem__, and Server.delete, which is del self[name]
DeleteDatabase ==
  /\ pc = "idle"
  /\ server.made
  /\ \E name \in DbNames :
     \E status \in {DbStatus("DELETE", name)} \cup Failures :
     \E text \in TextsOf(status) :
       /\ dbs' = IF status = 200 THEN dbs \ {name} ELSE dbs
       /\ Ends("Server.__delitem__", [name |-> name],
               Request("DELETE", urljoin(server.url, <<name>>), EmptyDict, 0),
               Response(status, text, 0),
               IF status # 200 THEN CouchDBError(status, text) ELSE Returned,
               0)
  /\ NoDoc
  /\ UNCHANGED <<server, db, docs>>

\* Server.config
GetConfig ==
  /\ pc = "idle"
  /\ server.made
  /\ \E status \in {200} \cup Failures : \E text \in TextsOf(status) :
       Ends("Server.config", EmptyDict,
            Request("GET", urljoin(server.url, <<"_config">>), EmptyDict, 0),
            Response(status, text, 0),
            IF status = 200 THEN Returned ELSE CouchDBError(status, text),
            IF status = 200 THEN "config" ELSE 0)
  /\ NoDoc
  /\ UNCHANGED <<server, db>>
  /\ UNCHANGED hostVars

\* A create that takes only 201 for success.
CreateSucceedsOnlyOn201(status) == status = 201

\* Server.create, line 81: the statuses create takes for success.
CreateSucceeds(status) == status = 201 \/ status = 412

\* Server.create
CreateDatabase ==
  /\ pc = "idle"
  /\ server.made
  /\ \E name \in DbNames :
     \E status \in {DbStatus("PUT", name)} \cup Failures :
     \E text \in TextsOf(status) :
       /\ dbs' = IF status = 201 THEN dbs \cup {name} ELSE dbs
       /\ db' = IF CreateSucceeds(status) THEN Database(server, name) ELSE db
       /\ Ends("Server.create", [name |-> name],
               Request("PUT", urljoin(server.url, <<name>>), EmptyDict, 0),
               Response(status, text, 0),
               IF CreateSucceeds(status) THEN Returned
               ELSE CouchDBError(status, text),
               IF CreateSucceeds(status) THEN Database(server, name) ELSE 0)
  /\ NoDoc
  /\ UNCHANGED <<server, docs>>

\* ------------------------------------------------------------------------
\* Database: documents

\* The URL of a document: the id is quoted, then joined to the base.
DocUrl(id) == urljoin(db.url, quote_plus(id))

\* Database.info
Info ==
  /\ pc = "idle"
  /\ db.made
  /\ \E status \in {DbStatus("GET", db.name)} \cup Failures :
     \E text \in TextsOf(status) :
       Ends("Database.info", EmptyDict,
            Request("GET", db.url, EmptyDict, 0),
            Response(status, text, 0),
            IF status = 200 THEN Returned ELSE CouchDBError(status, text),
            IF status = 200 THEN "info" ELSE 0)
  /\ NoDoc
  /\ UNCHANGED <<server, db>>
  /\ UNCHANGED hostVars

\* Database.__getitem__
GetDocument ==
  /\ pc = "idle"
  /\ db.made
  /\ \E id \in Ids :
     \E status \in {DocStatus(id)} \cup Failures :
     \E text \in TextsOf(status) :
       Ends("Database.__getitem__", [id |-> id],
            Request("GET", DocUrl(id), EmptyDict, 0),
            Response(status, text, 0),
            IF status = 200 THEN Returned ELSE CouchDBError(status, text),
            IF status = 200
            THEN [_id |-> id, _rev |-> RevToken(docs[id].gen)] ELSE 0)
  /\ NoDoc
  /\ UNCHANGED <<server, db>>
  /\ UNCHANGED hostVars

\* Database.getrev, line 126: the revision in the Etag header.
RevOfEtag(etag) == json_loads(etag).value

\* Database.getrev
GetRevision ==
  /\ pc = "idle"
  /\ db.made
  /\ \E id \in Ids :
     \E status \in {DocStatus(id)} \cup Failures :
     \E text \in TextsOf(status) :
       Ends("Database.getrev", [id |-> id],
            Request("HEAD", DocUrl(id), EmptyDict, 0),
            Response(status, text, IF status = 200 THEN Etag(docs[id].gen) ELSE 0),
            IF status = 200 THEN Returned ELSE CouchDBError(status, text),
            IF status = 200 THEN RevOfEtag(Etag(docs[id].gen)) ELSE 0)
  /\ NoDoc
  /\ UNCHANGED <<server, db>>
  /\ UNCHANGED hostVars

\* The statuses a write takes for success (lines 131 and 141).
WriteSucceeds(status) == status = 200 \/ status = 201

\* A __setitem__ that sets only the revision.
PutUpdatesRevOnly(d, id, json) == DictUpdate(d, [_rev |-> json.rev])

\* Database.__setitem__, line 134: what a successful put does to doc.
PutUpdates(d, id, json) == DictUpdate(d, [_id |-> id, _rev |-> json.rev])

\* Database.__setitem__
PutDocument ==
  /\ pc = "idle"
  /\ db.made
  /\ \E id \in Ids : \E d \in Docs :
     \E status \in WriteStatuses(id, HeldRevs(d)) \cup Failures :
     \E text \in TextsOf(status) :
       LET json == [id |-> id, rev |-> RevToken(docs[id].gen + 1)] IN
       /\ docs' = IF WriteSucceeds(status) THEN Written(id) ELSE docs
       /\ doc0' = d
       /\ doc' = IF WriteSucceeds(status) THEN PutUpdates(d, id, json) ELSE d
       /\ Ends("Database.__setitem__", [id |-> id],
               Request("PUT", DocUrl(id), EmptyDict, json_dumps(d)),
               Response(status, text, IF WriteSucceeds(status) THEN json ELSE 0),
               IF WriteSucceeds(status) THEN Returned
               ELSE CouchDBError(status, text),
               0)
  /\ UNCHANGED <<server, db, dbs>>

\* Database.save: what it does to doc (nothing).
SaveLeaves(d, json) == d

\* A save that always posts.
SaveAlwaysPosts(d) == Request("POST", db.url, EmptyDict, json_dumps(d))

\* Database.save, lines 137-140: the request a save sends.
SaveRequest(d) ==
  IF ~("_id" \in DOMAIN d)
  THEN Request("POST", db.url, EmptyDict, json_dumps(d))
  ELSE Request("PUT", DocUrl(d["_id"]), EmptyDict, json_dumps(d))

\* A POST of a document without an id, to which the host gives id: the
\* host gives only ids it has never used.
PostStatuses(id) == IF docs[id].gen = 0 THEN {200, 201} ELSE {}

\* Database.save
Save ==
  /\ pc = "idle"
  /\ db.made
  /\ \E d \in Docs :
     \E id \in (IF "_id" \in DOMAIN d THEN {d["_id"]} ELSE Ids) :
     \E status \in (IF "_id" \in DOMAIN d
                    THEN WriteStatuses(id, HeldRevs(d))
                    ELSE PostStatuses(id)) \cup Failures :
     \E text \in TextsOf(status) :
       LET json == [id |-> id, rev |-> RevToken(docs[id].gen + 1)] IN
       /\ docs' = IF WriteSucceeds(status) THEN Written(id) ELSE docs
       /\ doc0' = d
       /\ doc' = SaveLeaves(d, json)
       /\ Ends("Database.save", EmptyDict,
               SaveRequest(d),
               Response(status, text, IF WriteSucceeds(status) THEN json ELSE 0),
               IF WriteSucceeds(status) THEN Returned
               ELSE CouchDBError(status, text),
               IF WriteSucceeds(status) THEN <<json.id, json.rev>> ELSE 0)
  /\ UNCHANGED <<server, db, dbs>>

\* The request of Database.delete (line 151).
DeleteRequest(id, r) == Request("DELETE", DocUrl(id), [rev |-> r], 0)

\* Database.delete
Delete ==
  /\ pc = "idle"
  /\ db.made
  /\ \E id \in Ids : \E g \in 1..MaxRev :
     \E status \in {DeleteStatus(id, RevToken(g))} \cup Failures :
     \E text \in TextsOf(status) :
       /\ docs' = IF status = 200 THEN Deleted(id) ELSE docs
       /\ Ends("Database.delete", [id |-> id, rev |-> RevToken(g)],
               DeleteRequest(id, RevToken(g)),
               Response(status, text, 0),
               IF status = 200 THEN Returned ELSE CouchDBError(status, text),
               IF status = 200 THEN RevToken(docs[id].gen + 1) ELSE 0)
  /\ NoDoc
  /\ UNCHANGED <<server, db, dbs>>

\* Database.__delitem__, line 147: rev = self.getrev(id)
DeleteDocumentGetRev ==
  /\ pc = "idle"
  /\ db.made
  /\ \E id \in Ids :
     \E status \in {DocStatus(id)} \cup Failures :
     \E text \in TextsOf(status) :
       /\ call' = "Database.__delitem__"
       /\ arg' = [id |-> id]
       /\ reqs' = <<Request("HEAD", DocUrl(id), EmptyDict, 0)>>
       /\ resps' = <<Response(status, text, IF status = 200 THEN Etag(docs[id].gen) ELSE 0)>>
       /\ value' = 0
       /\ stale' = FALSE
       /\ IF status = 200
          THEN /\ rev' = RevOfEtag(Etag(docs[id].gen))
               /\ result' = NoResult
               /\ pc' = "delitem"
          ELSE /\ rev' = rev
               /\ result' = CouchDBError(status, text)
               /\ pc' = "idle"
  /\ NoDoc
  /\ UNCHANGED <<server, db>>
  /\ UNCHANGED hostVars
  /\ UNCHANGED feedVars

\* A delete-by-id that, told of a conflict, reads the revision again and
\* deletes with it.
DeleteConflictRetries(status, text) ==
  IF status = 409
  THEN /\ reqs' = reqs \o <<DeleteRequest(arg.id, rev),
                            Request("HEAD", DocUrl(arg.id), EmptyDict, 0),
                            DeleteRequest(arg.id, RevToken(docs[arg.id].gen))>>
       /\ resps' = resps \o <<Response(status, text, 0),
                              Response(200, "json", 0),
                              Response(200, "json", 0)>>
       /\ docs' = Deleted(arg.id)
       /\ result' = Returned
  ELSE /\ reqs' = Append(reqs, DeleteRequest(arg.id, rev))
       /\ resps' = Append(resps, Response(status, text, 0))
       /\ docs' = IF status = 200 THEN Deleted(arg.id) ELSE docs
       /\ result' = IF status = 200 THEN Returned
                    ELSE CouchDBError(status, text)

\* Database.__delitem__, line 148: self.delete(id, rev), once.
DeleteOnce(status, text) ==
  /\ reqs' = Append(reqs, DeleteRequest(arg.id, rev))
  /\ resps' = Append(resps, Response(status, text, 0))
  /\ docs' = IF status = 200 THEN Deleted(arg.id) ELSE docs
  /\ result' = IF status = 200 THEN Returned ELSE CouchDBError(status, text)

\* Database.__delitem__, line 148
DeleteDocumentDelete ==
  /\ pc = "delitem"
  /\ \E status \in {DeleteStatus(arg.id, rev)} \cup Failures :
     \E text \in TextsOf(status) :
       DeleteOnce(status, text)
  /\ pc' = "idle"
  /\ rev' = RevToken(0)
  /\ UNCHANGED <<server, db, call, arg, value, doc, doc0, dbs, stale>>
  /\ UNCHANGED feedVars

\* ------------------------------------------------------------------------
\* Database: views and the changes feed

\* View names: the built-in one, design/view, and a view name with a "/"
\* in it.
ViewNames == {<<"_all_docs">>, <<"d", "/", "v">>, <<"d", "/", "v", "/", "w">>}

\* keys: None, or a list.
NoKeys == [given |-> FALSE, list |-> <<>>]

KeyLists == {NoKeys, [given |-> TRUE, list |-> <<>>],
             [given |-> TRUE, list |-> <<"k1">>]}

ViewOptions == {EmptyDict, [limit |-> 1]}

ChangesOptions == {EmptyDict, [feed |-> "longpoll"], [feed |-> "continuous"]}

\* The path of a view under the database: _design/<design>/_view/<view>.
DesignPath(design, view) ==
  <<"_design", "/">> \o design \o <<"/", "_view", "/">> \o view

\* Database.view, lines 164-167: the URL, or the TypeError of the format.
ViewUrl(viewname) ==
  IF viewname = <<"_all_docs">>
  THEN [ok |-> TRUE, url |-> urljoin(db.url, <<"_all_docs">>)]
  ELSE LET parts == SplitFirstSlash(viewname)
           quoted == [i \in 1..Len(parts) |-> quote_plus(parts[i])]
           f == PyFormat(2, PyList(quoted))
       IN IF f.ok
          THEN [ok |-> TRUE,
                url |-> urljoin(db.url, DesignPath(f.args[1], f.args[2]))]
          ELSE [ok |-> FALSE, url |-> <<>>]

\* Database.view, lines 168-171: the request.
ViewRequest(url, keys, options) ==
  IF ~keys.given
  THEN Request("GET", url, options, 0)
  ELSE Request("POST", url, options, json_dumps([keys |-> keys.list]))

\* Database.view
View ==
  /\ pc = "idle"
  /\ db.made
  /\ \E viewname \in ViewNames : \E keys \in KeyLists :
     \E options \in ViewOptions :
       LET u == ViewUrl(viewname)
           a == [viewname |-> viewname, keys |-> keys, options |-> options]
       IN IF ~u.ok
          THEN Finish("Database.view", a, <<>>, <<>>, Raised("TypeError"), 0)
          ELSE \E status \in {200, 404} \cup Failures :
               \E text \in TextsOf(status) :
                 Ends("Database.view", a,
                      ViewRequest(u.url, keys, options),
                      Response(status, text, 0),
                      IF status = 200 THEN Returned
                      ELSE CouchDBError(status, text),
                      IF status = 200 THEN "rows" ELSE 0)
  /\ NoDoc
  /\ UNCHANGED <<server, db>>
  /\ UNCHANGED hostVars

\* 'feed' in options and options['feed'] == 'continuous'
IsContinuous(options) ==
  "feed" \in DOMAIN options /\ options["feed"] = "continuous"

\* The GET of the changes feed (lines 177-178 and 200-201).
ChangesRequest(options) ==
  Request("GET", urljoin(db.url, <<"_changes">>), options, 0)

\* Database.changes: the continuous feed gives a generator that has not
\* run yet, any other feed is one GET.
Changes ==
  /\ pc = "idle"
  /\ db.made
  /\ \E options \in ChangesOptions :
       IF IsContinuous(options)
       THEN /\ call' = "Database.changes"
            /\ arg' = [options |-> options]
            /\ reqs' = <<>>
            /\ resps' = <<>>
            /\ result' = NoResult
            /\ value' = "generator"
            /\ pc' = "gen_new"
            /\ stream' = <<>>
            /\ body' = <<>>
            /\ buf' = <<>>
            /\ events' = <<>>
            /\ UNCHANGED delVars
       ELSE \E status \in {200} \cup Failures : \E text \in TextsOf(status) :
              Ends("Database.changes", [options |-> options],
                   ChangesRequest(options),
                   Response(status, text, 0),
                   IF status = 200 THEN Returned
                   ELSE CouchDBError(status, text),
                   IF status = 200 THEN "changes" ELSE 0)
  /\ NoDoc
  /\ UNCHANGED <<server, db>>
  /\ UNCHANGED hostVars

\* The bytes of a feed.
Bytes == {"1", "2", "x", "\n"}

\* The bodies of a feed.
Streams == UNION {[1..n -> Bytes] : n \in 0..MaxStream}

\* Database._continuous, line 194: raise CouchDBError(), which lacks the
\* status_code argument that CouchDBError.__init__ (line 16) requires.
ContinuousError(status, text) == Raised("TypeError")

\* A reader that keeps the line it has just yielded in the buffer.
BufAfterYieldKept(bf) == bf

\* Database._continuous, line 190: buf = b''
BufAfterYield(bf) == <<>>

\* Database._continuous, lines 184 and 188: if len(buf) > 0
YieldsLine(bf) == Len(bf) > 0

\* A yield of json.loads(bf), or the ValueError of it.
Decoded(bf, st, nextbuf, at) ==
  LET j == json_loads(bf) IN
  IF j.ok
  THEN [kind |-> "yield", value |-> j.value, stream |-> st, buf |-> nextbuf,
        pc |-> at]
  ELSE [kind |-> "error", value |-> 0, stream |-> st, buf |-> nextbuf,
        pc |-> "idle"]

\* Database._continuous, lines 181-193: the loop, run to its next yield,
\* to the end of the stream or to an error.
RECURSIVE ReadLoop(_, _)
ReadLoop(st, bf) ==
  IF st = <<>>
  THEN IF YieldsLine(bf)
       THEN Decoded(bf, st, bf, "gen_tail")
       ELSE [kind |-> "stop", value |-> 0, stream |-> st, buf |-> bf,
             pc |-> "idle"]
  ELSE IF Head(st) = "\n"
  THEN IF YieldsLine(bf)
       THEN Decoded(bf, Tail(st), BufAfterYield(bf), "gen_loop")
       ELSE ReadLoop(Tail(st), bf)
  ELSE ReadLoop(Tail(st), Append(bf, Head(st)))

\* What a run of the loop leaves.
Resume(o) ==
  /\ stream' = o.stream
  /\ buf' = o.buf
  /\ pc' = o.pc
  /\ events' = IF o.kind = "yield" THEN Append(events, o.value) ELSE events
  /\ result' = IF o.kind = "stop" THEN Returned
               ELSE IF o.kind = "error" THEN Raised("ValueError")
               ELSE NoResult

\* next() on the generator of Database._continuous
GeneratorNext ==
  /\ pc \in {"gen_new", "gen_loop", "gen_tail"}
  /\ IF pc = "gen_new"
     THEN \E status \in {200} \cup Failures : \E text \in TextsOf(status) :
            /\ reqs' = <<ChangesRequest(arg.options)>>
            /\ resps' = <<Response(status, text, 0)>>
            /\ IF status = 200
               THEN \E b \in Streams : body' = b /\ Resume(ReadLoop(b, <<>>))
               ELSE /\ result' = ContinuousError(status, text)
                    /\ pc' = "idle"
                    /\ UNCHANGED feedVars
     ELSE IF pc = "gen_loop"
     THEN /\ Resume(ReadLoop(stream, buf))
          /\ UNCHANGED <<reqs, resps, body>>
     ELSE /\ result' = Returned
          /\ pc' = "idle"
          /\ UNCHANGED <<reqs, resps>>
          /\ UNCHANGED feedVars
  /\ UNCHANGED <<server, db, call, arg, value, doc, doc0>>
  /\ UNCHANGED delVars
  /\ UNCHANGED hostVars

\* The caller drops the generator before it ends.
GeneratorClose ==
  /\ pc \in {"gen_new", "gen_loop", "gen_tail"}
  /\ pc' = "idle"
  /\ result' = [kind |-> "closed", exc |-> "", status |-> 0, body |-> ""]
  /\ UNCHANGED <<server, db, call, arg, reqs, resps, value, doc, doc0>>
  /\ UNCHANGED delVars
  /\ UNCHANGED feedVars
  /\ UNCHANGED hostVars

\* ------------------------------------------------------------------------
\* Specifications

\* The Server and its databases, from before the Server is made.
Next ==
  \/ Construct
  \/ ListDatabaseNames
  \/ LookupDatabase
  \/ DeleteDatabase
  \/ GetConfig
  \/ CreateDatabase

Spec == Init /\ [][Next]_vars

\* A Server that was made and a Database handle it gave out.
InitHandle ==
  /\ server = [made |-> TRUE, url |-> ServerUrl]
  /\ \E name \in DbNames : db = Database(server, name)
  /\ call = ""
  /\ arg = EmptyDict
  /\ reqs = <<>>
  /\ resps = <<>>
  /\ result = NoResult
  /\ value = 0
  /\ doc = EmptyDict
  /\ doc0 = EmptyDict
  /\ pc = "idle"
  /\ rev = RevToken(0)
  /\ stale = FALSE
  /\ stream = <<>>
  /\ body = <<>>
  /\ buf = <<>>
  /\ events = <<>>
  /\ dbs = DbNames
  /\ docs = [id \in Ids |-> [gen |-> 0, exists |-> FALSE]]

\* The documents of a database, with another writer at work.
NextDocs ==
  \/ Info
  \/ GetDocument
  \/ GetRevision
  \/ PutDocument
  \/ Save
  \/ Delete
  \/ DeleteDocumentGetRev
  \/ DeleteDocumentDelete
  \/ OtherWriter

SpecDocs == InitHandle /\ [][NextDocs]_vars

\* The views and the changes feed of a database.
NextQuery ==
  \/ View
  \/ Changes
  \/ GeneratorNext
  \/ GeneratorClose

SpecQuery == InitHandle /\ [][NextQuery]_vars

\* ------------------------------------------------------------------------
\* Properties

\* The handle of database name under the Server at the root of the host.
HandleOf(name) ==
  [made |-> TRUE, server |-> <<"/">>, name |-> name, url |-> <<"/", name, "/">>]

\* C7: Server.create returns a Database handle bound to the server and the
\* name whenever the response status is 201 or 412 (so also when the
\* database was already created by an earlier call), and raises
\* CouchDBError on any other status.
C7_CreateReturnsHandle ==
  (call = "Server.create" /\ pc = "idle") =>
    IF resps[1].status \in {201, 412}
    THEN /\ result.kind = "return"
         /\ value = HandleOf(arg.name)
         /\ db = HandleOf(arg.name)
    ELSE /\ result.kind = "raise"
         /\ result.exc = "CouchDBError"

\* C7 witness: a create of a database that exists already, answered 412,
\* has returned its handle.
C7_Witness ==
  /\ call = "Server.create"
  /\ arg.name \in dbs
  /\ resps[1].status = 412
  /\ result.kind = "return"
  /\ value = HandleOf(arg.name)

\* C8: Server.__getitem__ returns a Database handle bound to this Server
\* when the HEAD is answered 200, and on every other status raises
\* CouchDBError with status_code 404 and body "no such database".
C8_LookupReports404 ==
  (call = "Server.__getitem__" /\ pc = "idle") =>
    IF resps[1].status = 200
    THEN /\ result.kind = "return"
         /\ value = HandleOf(arg.name)
    ELSE result = [kind |-> "raise", exc |-> "CouchDBError", status |-> 404,
                   body |-> "no such database"]

\* C8 witness: a lookup answered 500 has raised the 404 error.
C8_Witness ==
  /\ call = "Server.__getitem__"
  /\ reqs[1].method = "HEAD"
  /\ resps[1].status = 500
  /\ result.kind = "raise"
  /\ result.status = 404

\* The base URL of the handle in use, and an id as it is written in a URL.
BaseUrl == <<"/", db.name, "/">>

EncodedId(id) == IF id = <<"a">> THEN <<"a">> ELSE <<"b", "%2F", "+">>

\* C5: Database.__setitem__(id, doc): after a 200 or 201 the caller's doc
\* has _id = id and _rev = the rev of the response and its other fields as
\* before; after any other status CouchDBError is raised and doc is as it
\* was.
C5_PutUpdatesDocInPlace ==
  (call = "Database.__setitem__" /\ pc = "idle") =>
    IF resps[1].status \in {200, 201}
    THEN /\ result.kind = "return"
         /\ DOMAIN doc = DOMAIN doc0 \cup {"_id", "_rev"}
         /\ doc["_id"] = arg.id
         /\ doc["_rev"] = resps[1].content.rev
         /\ \A k \in DOMAIN doc0 \ {"_id", "_rev"} : doc[k] = doc0[k]
    ELSE /\ result = [kind |-> "raise", exc |-> "CouchDBError",
                      status |-> resps[1].status, body |-> resps[1].text]
         /\ doc = doc0

\* C5 witness: a put answered 201 of a document that had only a field of
\* its own.
C5_Witness ==
  /\ call = "Database.__setitem__"
  /\ resps[1].status = 201
  /\ DOMAIN doc0 = {"k"}
  /\ DOMAIN doc = {"_id", "_rev", "k"}
  /\ doc["k"] = "v"

\* C9: Database.save(doc) sends a POST to the base URL when doc has no
\* _id and a PUT to base/encoded _id when it has one, returns (id, rev) of
\* the response on 200 or 201, raises CouchDBError on any other status,
\* and never changes doc.
C9_SaveRequestAndResult ==
  (call = "Database.save" /\ pc = "idle") =>
    /\ Len(reqs) = 1
    /\ IF "_id" \in DOMAIN doc0
       THEN /\ reqs[1].method = "PUT"
            /\ reqs[1].url = BaseUrl \o EncodedId(doc0["_id"])
       ELSE /\ reqs[1].method = "POST"
            /\ reqs[1].url = BaseUrl
    /\ IF resps[1].status \in {200, 201}
       THEN /\ result.kind = "return"
            /\ value = <<resps[1].content.id, resps[1].content.rev>>
       ELSE /\ result.kind = "raise"
            /\ result.exc = "CouchDBError"
    /\ doc = doc0

\* C9 witness: a save of a document whose _id has a "/" and a space was
\* answered 201 and returned the pair.
C9_Witness ==
  /\ call = "Database.save"
  /\ "_id" \in DOMAIN doc0
  /\ doc0["_id"] = <<"b", "/", " ">>
  /\ reqs[1].method = "PUT"
  /\ resps[1].status = 201
  /\ result.kind = "return"

\* C4: Database.__delitem__, once getrev has succeeded, sends one DELETE
\* with the revision getrev read and nothing more; when the host answers
\* that DELETE by the revision rule, the deletion succeeds exactly when no
\* other writer changed the document between the two requests, and
\* otherwise raises CouchDBError with the 409 of the host.
C4_DeleteByIdConflict ==
  (call = "Database.__delitem__" /\ pc = "idle" /\ resps[1].status = 200) =>
    /\ Len(reqs) = 2
    /\ reqs[2].method = "DELETE"
    /\ reqs[2].url = BaseUrl \o EncodedId(arg.id)
    /\ reqs[2].params.rev = resps[1].content[2]
    /\ resps[2].status \notin Failures =>
         /\ (result.kind = "return") <=> ~stale
         /\ stale => result = [kind |-> "raise", exc |-> "CouchDBError",
                               status |-> 409, body |-> resps[2].text]

\* C4 witness: another writer wrote between the HEAD and the DELETE and
\* the deletion raised the conflict.
C4_Witness ==
  /\ call = "Database.__delitem__"
  /\ pc = "idle"
  /\ Len(reqs) = 2
  /\ stale
  /\ result.kind = "raise"
  /\ result.status = 409

\* A delete-by-id with no writer in between has deleted the document.
C4_SuccessReached ==
  /\ call = "Database.__delitem__"
  /\ pc = "idle"
  /\ Len(reqs) = 2
  /\ ~stale
  /\ result.kind = "return"
  /\ ~docs[arg.id].exists

\* The lines of a body: what stands between its "\n"; the last one is the
\* unterminated rest (empty when the body ends with "\n" or is empty).
RECURSIVE Lines(_)
Lines(s) ==
  IF \A i \in 1..Len(s) : s[i] # "\n" THEN <<s>>
  ELSE LET i == CHOOSE j \in 1..Len(s) :
                  s[j] = "\n" /\ \A k \in 1..(j - 1) : s[k] # "\n"
       IN <<SubSeq(s, 1, i - 1)>> \o Lines(SubSeq(s, i + 1, Len(s)))

NonEmptyLine(l) == l # <<>>

ValidLine(l) == l # <<>> /\ \A i \in 1..Len(l) : l[i] \in Digits

\* The value of a line of digits.
LineValue(l) == DigitsValue(l)

\* A continuous feed whose GET was answered 200.
FeedOpen ==
  /\ call = "Database.changes"
  /\ IsContinuous(arg.options)
  /\ Len(resps) = 1
  /\ resps[1].status = 200

\* C2 as stated: when the stream of a continuous feed has ended, the events
\* are the decodings of every newline-terminated line, in order, then that
\* of the unterminated last line if it is not empty.
C2_EveryLineDecoded ==
  (FeedOpen /\ result.kind = "return") =>
    LET ls == Lines(body)
        n == Len(ls)
        want == IF ls[n] # <<>> THEN ls ELSE SubSeq(ls, 1, n - 1)
    IN /\ Len(events) = Len(want)
       /\ \A i \in 1..Len(want) :
            ValidLine(want[i]) /\ events[i] = LineValue(want[i])

\* C2 as amended: the events of a continuous feed are, in order and each
\* once, the decodings of the lines that are not empty (terminated, or the
\* unterminated last one); an empty line gives no event.  While the feed
\* runs the events are a prefix of these, when the stream has ended they
\* are all of them, and the feed ends so whenever every such line is JSON.
C2_NonEmptyLinesDecoded ==
  FeedOpen =>
    LET want == SelectSeq(Lines(body), NonEmptyLine)
        valid == \A i \in 1..Len(want) : ValidLine(want[i])
    IN /\ Len(events) <= Len(want)
       /\ \A i \in 1..Len(events) :
            ValidLine(want[i]) /\ events[i] = LineValue(want[i])
       /\ result.kind = "return" => (Len(events) = Len(want) /\ valid)
       /\ valid => result.kind # "raise"

\* C2 witness: a feed with an empty line, a terminated line and an
\* unterminated last line has ended after two events.
C2_Witness ==
  /\ FeedOpen
  /\ body = <<"1", "\n", "\n", "2">>
  /\ events = <<1, 2>>
  /\ result.kind = "return"

\* C3: a continuous feed whose GET is not answered 200 fails with
\* CouchDBError, and no event is yielded on it.
C3_ContinuousFailsWithCouchDBError ==
  (/\ call = "Database.changes"
   /\ IsContinuous(arg.options)
   /\ Len(resps) = 1
   /\ resps[1].status # 200) =>
    /\ result.kind = "raise"
    /\ result.exc = "CouchDBError"
    /\ events = <<>>

\* The statuses a method takes for success, as the specification lists
\* them.
SuccessSet(c) ==
  IF c = "Server.create" THEN {201, 412}
  ELSE IF c \in {"Database.__setitem__", "Database.save"} THEN {200, 201}
  ELSE {200}

\* C1: a method whose request is answered with a status outside its
\* success set raises CouchDBError with that status and the response text.
C1_ErrorCarriesStatusAndText ==
  (/\ pc = "idle"
   /\ Len(resps) >= 1
   /\ resps[Len(resps)].status \notin SuccessSet(call)) =>
    result = [kind |-> "raise", exc |-> "CouchDBError",
              status |-> resps[Len(resps)].status,
              body |-> resps[Len(resps)].text]

\* The design and view parts of a view name: before and after its first "/".
DesignOf(viewname) == SubSeq(viewname, 1, FirstSlash(viewname, 1) - 1)

ViewOf(viewname) ==
  SubSeq(viewname, FirstSlash(viewname, 1) + 1, Len(viewname))

\* C6: Database.view sends exactly one request, to base/_all_docs for
\* "_all_docs" and to base/_design/design/_view/view for design/view, a
\* GET without keys and a POST with body {"keys": keys} with keys, and
\* returns on 200.
C6_ViewSendsOneRequest ==
  (/\ call = "Database.view"
   /\ pc = "idle"
   /\ (arg.viewname = <<"_all_docs">> \/ FirstSlash(arg.viewname, 1) > 0)) =>
    /\ Len(reqs) = 1
    /\ reqs[1].url =
         IF arg.viewname = <<"_all_docs">> THEN BaseUrl \o <<"_all_docs">>
         ELSE BaseUrl \o <<"_design", "/">> \o DesignOf(arg.viewname)
                \o <<"/", "_view", "/">> \o ViewOf(arg.viewname)
    /\ reqs[1].method = IF arg.keys.given THEN "POST" ELSE "GET"
    /\ arg.keys.given => reqs[1].data = [json |-> [keys |-> arg.keys.list]]
    /\ resps[1].status = 200 => result.kind = "return"

\* C10: a method that has ended sent exactly one request, or, for
\* delete-by-id, a HEAD and then a DELETE (the HEAD alone when it was not
\* answered 200); no request follows a response that is not a success.
C10_OneRequestPerInvocation ==
  result.kind \in {"return", "raise"} =>
    /\ IF call = "Database.__delitem__"
       THEN \/ /\ Len(reqs) = 2
               /\ reqs[1].method = "HEAD"
               /\ reqs[2].method = "DELETE"
            \/ /\ Len(reqs) = 1
               /\ reqs[1].method = "HEAD"
               /\ resps[1].status # 200
       ELSE Len(reqs) = 1
    /\ Len(resps) = Len(reqs)
    /\ \A i \in 1..(Len(resps) - 1) : resps[i].status \in SuccessSet(call)

====
